---- MODULE Spec2Model ----
(***************************************************************************)
(* A model of src/shared/edit-util.c: the edit-and-install workflow.       *)
(*                                                                         *)
(* Text (file contents, marker strings, environment values, arguments) is  *)
(* a sequence of one-character strings, so that strstr, strstrip, endswith *)
(* and strv_split are computed as the C code computes them.  A path that   *)
(* is printed into a text (the header line, an argument) is one opaque     *)
(* token of that text: paths hold no whitespace and no marker.             *)
(* Memory allocation is assumed to succeed (the log_oom() exits are not    *)
(* modelled), and every session has both markers set, as every caller of   *)
(* trim_edit_markers needs (strstr on a NULL marker is undefined).         *)
(***************************************************************************)
EXTENDS Integers, Sequences, FiniteSets, TLC

(***************************************************************************)
(* Bounds of the model                                                     *)
(***************************************************************************)

\* longest file content enumerated by the specifications of the pure functions
MaxLen == 3

\* number of target paths the registry specification draws from
NumPaths == 3

(***************************************************************************)
(* Program constants                                                       *)
(***************************************************************************)

\* errno values: "no such file"; EACCES stands for every other errno of an
\* execvp, EIO for every other failure
ENOENT == 2
EIO == 5
EACCES == 13

\* string-util.h WHITESPACE, as used by strstrip and strv_split
WHITESPACE == {" ", "\t", "\n", "\r"}

\* the cursor line of a templated staging file
TemplateLine == 4

\* the well-known editors of run_editor_child
FallbackEditors == <<"editor", "nano", "vim", "vi">>

(***************************************************************************)
(* C strings                                                               *)
(***************************************************************************)

NL == "\n"

isempty(s) == Len(s) = 0

streq(a, b) == a = b

\* Index of the first occurrence of needle in hay, 0 when there is none.
strstr(hay, needle) ==
    LET hits == { i \in 1..(Len(hay) - Len(needle) + 1) :
                     SubSeq(hay, i, i + Len(needle) - 1) = needle }
    IN IF hits = {} THEN 0 ELSE CHOOSE i \in hits : \A j \in hits : i <= j

endswith(s, suffix) ==
    /\ Len(s) >= Len(suffix)
    /\ SubSeq(s, Len(s) - Len(suffix) + 1, Len(s)) = suffix

\* strstrip: drop leading and trailing WHITESPACE
strstrip(s) ==
    LET keep == { i \in 1..Len(s) : s[i] \notin WHITESPACE }
    IN IF keep = {} THEN <<>>
       ELSE LET lo == CHOOSE i \in keep : \A j \in keep : i <= j
                hi == CHOOSE i \in keep : \A j \in keep : i >= j
            IN SubSeq(s, lo, hi)

\* What strstrip leaves reachable through the pointer it was given: it writes
\* the terminating NUL after the last character that is not whitespace.
rstrip(s) ==
    LET keep == { i \in 1..Len(s) : s[i] \notin WHITESPACE }
    IN IF keep = {} THEN s
       ELSE SubSeq(s, 1, CHOOSE i \in keep : \A j \in keep : i >= j)

\* strreplace(s, "\n", "\n# ")
RECURSIVE strreplace_nl(_)
strreplace_nl(s) ==
    IF s = <<>> THEN <<>>
    ELSE (IF Head(s) = NL THEN <<NL, "#", " ">> ELSE <<Head(s)>>)
         \o strreplace_nl(Tail(s))

\* strv_split(s, WHITESPACE): the non-empty words of s
RECURSIVE strv_split(_)
strv_split(s) ==
    IF s = <<>> THEN <<>>
    ELSE IF Head(s) \in WHITESPACE THEN strv_split(Tail(s))
    ELSE LET stops == { i \in 1..Len(s) : s[i] \in WHITESPACE }
             n == IF stops = {} THEN Len(s)
                  ELSE (CHOOSE i \in stops : \A j \in stops : i <= j) - 1
         IN <<SubSeq(s, 1, n)>> \o strv_split(SubSeq(s, n + 1, Len(s)))

\* All texts over alphabet of length at most n
RECURSIVE Texts(_, _)
Texts(alphabet, n) ==
    IF n = 0 THEN { <<>> }
    ELSE LET shorter == Texts(alphabet, n - 1)
         IN shorter \cup { Append(t, c) : t \in shorter, c \in alphabet }

(***************************************************************************)
(* The staged text of create_edit_temp_file                                *)
(***************************************************************************)

\* A value that may be NULL: a text (file contents read, getenv's result)
Null == [null |-> TRUE, v |-> <<>>]
Some(t) == [null |-> FALSE, v |-> t]

strempty(x) == IF x.null THEN <<>> ELSE x.v

\* The session's markers (caller-supplied; neither occurs in the header line)
marker_start == <<"#", "S">>
marker_end == <<"#", "E">>

\* fprintf of lines 170-181: target_contents is Null when the target is absent
TemplateText(target_path, ms, target_contents, me) ==
    <<"#", "#", "#", " ", "E", "d", "i", "t", "i", "n", "g", " ", target_path, NL>>
    \o ms \o <<NL>>
    \o <<NL>>
    \o strempty(target_contents)
    \o (IF ~target_contents.null /\ endswith(target_contents.v, <<NL>>)
        THEN <<>> ELSE <<NL>>)
    \o <<NL>>
    \o me \o <<NL>>

\* fprintf of lines 197-206: the block of one comment source
CommentBlock(path, contents) ==
    <<NL, NL, "#", "#", "#", " ", path>>
    \o (IF ~isempty(contents)
        THEN <<NL, "#", " ">> \o strreplace_nl(strstrip(contents))
        ELSE <<>>)

(***************************************************************************)
(* trim_edit_markers on the text of a file                                 *)
(***************************************************************************)

\* contents_start left at the marker instead of behind it
ContentsStart_AtMarker(old, ms) ==
    LET i == strstr(old, ms)
    IN IF i > 0 THEN i ELSE 1

\* index of contents_start in old_contents (lines 313-317)
ContentsStart(old, ms) ==
    LET i == strstr(old, ms)
    IN IF i > 0 THEN i + Len(ms) ELSE 1

\* index of the last character before contents_end (lines 319-321)
ContentsLast(old, ms, me) ==
    LET b == ContentsStart(old, ms)
        j == strstr(SubSeq(old, b, Len(old)), me)
    IN IF j > 0 THEN b + j - 2 ELSE Len(old)

\* the text from contents_start to the NUL written at contents_end
TrimRegion(old, ms, me) ==
    SubSeq(old, ContentsStart(old, ms), ContentsLast(old, ms, me))

\* old_contents as a C string once contents_end[0] = 0 and strstrip have
\* written their NULs into the buffer (lines 321, 323)
OldAfterStrip(old, ms, me) ==
    SubSeq(old, 1, ContentsStart(old, ms) - 1) \o rstrip(TrimRegion(old, ms, me))

\* a trim that reports what it found and leaves the file as it is
TrimResult_NoWrite(old, ms, me) ==
    LET c == strstrip(TrimRegion(old, ms, me))
    IN [r |-> IF isempty(c) THEN 0 ELSE 1, write |-> FALSE, new |-> old]

\* r: the return value; write: whether write_string_file is called;
\* new: new_contents (lines 323-338)
TrimResult(old, ms, me) ==
    LET c == strstrip(TrimRegion(old, ms, me))
        new_contents == c \o <<NL>>
    IN IF isempty(c) THEN [r |-> 0, write |-> FALSE, new |-> old]
       ELSE IF streq(OldAfterStrip(old, ms, me), new_contents)
            THEN [r |-> 1, write |-> FALSE, new |-> old]
            ELSE [r |-> 1, write |-> TRUE, new |-> new_contents]

(***************************************************************************)
(* Paths, files and directories                                            *)
(***************************************************************************)

\* a NULL path (no caller passes an empty one)
NullPath == ""

PathNames == <<"t1", "t2", "t3", "t4", "t5">>

\* the target paths of the registry specification
AddPaths == { PathNames[i] : i \in 1..NumPaths }

\* the target paths of a run
RunPaths == {"t1", "t2"}

\* tempfn_random: a fresh name beside the target, never an existing file
TempOf == ("t1" :> "t1.tmp") @@ ("t2" :> "t2.tmp")
TempNames == { TempOf[p] : p \in RunPaths }

\* a file that seeds plain copies and a file quoted as a comment, each of
\* which may be missing
OrigPath == "orig"
SourcePath == "src"

FileNames == RunPaths \cup TempNames \cup {OrigPath, SourcePath}

\* the directories above the targets: t1 is d0/d1/t1, t2 is d0/d2/t2; d0 lies
\* in a directory that always exists
ParentOf == ("t1" :> "d1") @@ ("t2" :> "d2") @@ ("t1.tmp" :> "d1") @@ ("t2.tmp" :> "d2")
DirParent == ("d1" :> "d0") @@ ("d2" :> "d0")
DirNames == {"d0", "d1", "d2"}

\* mkdir_parents: the directories above a target
Ancestors(p) == {ParentOf[p], DirParent[ParentOf[p]]}

Absent == [ex |-> FALSE, data |-> <<>>]
File(t) == [ex |-> TRUE, data |-> t]

VARIABLES
    files,          \* context->files[0 .. n_files-1]
    remove_parent,  \* context->remove_parent
    fs,             \* the files on disk: name -> Absent or File(text)
    dirs,           \* the directories on disk, among DirNames
    env,            \* the editor variables: name -> Null or Some(text)
    pc,             \* where the caller and the running call are
    idx,            \* the FOREACH_ARRAY position of the running loop
    ret,            \* the value the last call returned
    call,           \* the last call made and its path argument
    child,          \* the forked child: its position, editor and args
    attempts,       \* the execvp calls of the living child: argv and errno
                    \* (0: the call did not return)
    hist            \* what has happened so far, for the properties to read

vars == <<files, remove_parent, fs, dirs, env, pc, idx, ret, call, child,
          attempts, hist>>

n_files == Len(files)

EditFile(path, original_path, comment_paths) ==
    [path |-> path, original_path |-> original_path,
     comment_paths |-> comment_paths, temp |-> NullPath, line |-> 0]

NoChild == [pc |-> "none", editor |-> Null, args |-> <<>>, k |-> 0,
            prepended |-> FALSE, status |-> 0]

NoCall == [op |-> "none", path |-> NullPath]

(***************************************************************************)
(* edit_files_contains, edit_files_add                                     *)
(***************************************************************************)

\* a scan that misses the last entry
edit_files_contains_short(fls, path) ==
    \E i \in 1..(Len(fls) - 1) : streq(fls[i].path, path)

edit_files_contains(fls, path) ==
    \E i \in 1..Len(fls) : streq(fls[i].path, path)

edit_files_add(path, original_path, comment_paths) ==
    /\ pc = "setup"
    /\ call' = [op |-> "edit_files_add", path |-> path]
    /\ IF edit_files_contains(files, path)
       THEN /\ ret' = 0
            /\ files' = files
       ELSE /\ files' = Append(files, EditFile(path, original_path, comment_paths))
            /\ ret' = 1
    /\ UNCHANGED <<remove_parent, fs, dirs, env, pc, idx, child, attempts, hist>>

(***************************************************************************)
(* create_edit_temp_file                                                   *)
(***************************************************************************)

\* The places where create_edit_temp_file can fail for a reason outside the
\* model (a full disk, a permission, a label); "none": it does not.
StageFailures ==
    {"none", "tempfn", "mkdir", "label1", "copy", "touch", "label2", "fopen",
     "fchmod", "readtarget", "readcomment", "fflush"}

path_equal(a, b) == a = b

\* read_full_file
ReadFile(fsx, name) == IF fsx[name].ex THEN Some(fsx[name].data) ELSE Null

\* a comment loop that passes over a source it cannot find
RECURSIVE CommentLoop_SkipMissing(_, _, _, _, _)
CommentLoop_SkipMissing(paths, target_path, fsx, fail, text) ==
    IF paths = <<>> THEN [err |-> 0, text |-> text]
    ELSE IF path_equal(Head(paths), target_path) \/ ~fsx[Head(paths)].ex
         THEN CommentLoop_SkipMissing(Tail(paths), target_path, fsx, fail, text)
    ELSE IF fail = "readcomment" THEN [err |-> EIO, text |-> text]
    ELSE CommentLoop_SkipMissing(Tail(paths), target_path, fsx, fail,
                                 text \o CommentBlock(Head(paths), fsx[Head(paths)].data))

\* The comment loop (lines 186-207) from the text written so far: err is 0, or
\* the errno of the read that failed, with text what was written until then.
RECURSIVE CommentLoop(_, _, _, _, _)
CommentLoop(paths, target_path, fsx, fail, text) ==
    IF paths = <<>> THEN [err |-> 0, text |-> text]
    ELSE IF path_equal(Head(paths), target_path)
         THEN CommentLoop(Tail(paths), target_path, fsx, fail, text)
    ELSE IF ~fsx[Head(paths)].ex THEN [err |-> ENOENT, text |-> text]
    ELSE IF fail = "readcomment" THEN [err |-> EIO, text |-> text]
    ELSE CommentLoop(Tail(paths), target_path, fsx, fail,
                     text \o CommentBlock(Head(paths), fsx[Head(paths)].data))

\* The whole function: r is its return value, at the call that made it fail,
\* temp and line what it hands back (on failure nothing: the caller's temp
\* stays NULL), fs and dirs the disk afterwards.
create_edit_temp_file(f, ms, me, fsx, dirsx, fail) ==
    LET temp == TempOf[f.path]
        Failed(e, at, fsy, dirsy) ==
            [r |-> -e, at |-> at, temp |-> f.temp, line |-> f.line,
             fs |-> fsy, dirs |-> dirsy]
        dirs1 == dirsx \cup Ancestors(f.path)
        Done(line, fsy) ==
            [r |-> 0, at |-> "none", temp |-> temp, line |-> line,
             fs |-> fsy, dirs |-> dirs1]
        \* lines 132-148
        fs1 == IF f.original_path = NullPath THEN fsx
               ELSE IF fsx[f.original_path].ex
                    THEN [fsx EXCEPT ![temp] = fsx[f.original_path]]
                    ELSE [fsx EXCEPT ![temp] = File(<<>>)]
        \* lines 158-161: fopen(temp, "we") creates or truncates
        fs2 == [fs1 EXCEPT ![temp] = File(<<>>)]
        text == TemplateText(f.path, ms, ReadFile(fsx, f.path), me)
        loop == CommentLoop(f.comment_paths.v, f.path, fsx, fail, text)
        \* what fclose leaves of the buffered text
        fs3 == [fs1 EXCEPT ![temp] = File(loop.text)]
    IN IF fail = "tempfn" THEN Failed(EIO, fail, fsx, dirsx)
       ELSE IF fail = "mkdir" THEN Failed(EIO, fail, fsx, dirsx)
       ELSE IF f.original_path # NullPath /\ fail = "label1"
            THEN Failed(EIO, fail, fsx, dirs1)
       ELSE IF f.original_path # NullPath /\ ~fsx[f.original_path].ex /\ fail = "touch"
            THEN Failed(EIO, fail, fsx, dirs1)
       ELSE IF f.original_path # NullPath /\ fsx[f.original_path].ex /\ fail = "copy"
            THEN Failed(EIO, fail, fsx, dirs1)
       ELSE IF f.comment_paths.null THEN Done(1, fs1)
       ELSE IF fail \in {"label2", "fopen"} THEN Failed(EIO, fail, fs1, dirs1)
       ELSE IF fail = "fchmod" THEN Failed(EIO, fail, fs2, dirs1)
       ELSE IF fail = "readtarget" /\ fsx[f.path].ex THEN Failed(EIO, fail, fs2, dirs1)
       ELSE IF loop.err # 0 THEN Failed(loop.err, "readcomment", fs3, dirs1)
       ELSE IF fail = "fflush" THEN Failed(EIO, fail, fs3, dirs1)
       ELSE Done(TemplateLine, fs3)

(***************************************************************************)
(* do_edit_files_and_install: entry and the staging loop                   *)
(***************************************************************************)

SetFile(fls, i, temp, line) ==
    [fls EXCEPT ![i] = [@ EXCEPT !.temp = temp, !.line = line]]

\* lines 341-347
DoEditBegin ==
    /\ pc = "setup"
    /\ call' = [op |-> "do_edit_files_and_install", path |-> NullPath]
    /\ IF n_files = 0
       THEN /\ ret' = -ENOENT
            /\ pc' = "returned"
            /\ idx' = idx
       ELSE /\ pc' = "stage"
            /\ idx' = 1
            /\ ret' = ret
    /\ UNCHANGED <<files, remove_parent, fs, dirs, env, child, attempts, hist>>

\* a staging loop that does not look at r
AfterStage_Unchecked(r) ==
    IF idx = n_files THEN "fork" ELSE "stage"

\* where the run goes when create_edit_temp_file returned r for files[idx]
AfterStage(r) ==
    IF r < 0 THEN "returned"
    ELSE IF idx = n_files THEN "fork"
    ELSE "stage"

\* one iteration of lines 349-360
StageFile ==
    /\ pc = "stage"
    /\ \E fail \in StageFailures :
         LET f == files[idx]
             res == IF f.temp = NullPath
                    THEN create_edit_temp_file(f, marker_start, marker_end,
                                               fs, dirs, fail)
                    ELSE [r |-> 0, at |-> "none", temp |-> f.temp, line |-> f.line,
                          fs |-> fs, dirs |-> dirs]
             t == TempOf[f.path]
         IN /\ fs' = res.fs
            /\ dirs' = res.dirs
            /\ files' = SetFile(files, idx, res.temp, res.line)
            /\ pc' = AfterStage(res.r)
            /\ ret' = IF res.r < 0 THEN res.r ELSE ret
            /\ idx' = IF res.r < 0 THEN idx ELSE idx + 1
            /\ hist' = [hist EXCEPT
                          !.stagedOk = IF res.r < 0 THEN @ ELSE @ \cup {f.path},
                          !.stageAt = res.at,
                          !.made = IF res.fs[t].ex THEN @ \cup {t} ELSE @,
                          !.madeDirs = @ \cup (res.dirs \ dirs),
                          !.staged = IF res.r < 0 THEN @
                                     ELSE [@ EXCEPT ![f.path] = res.fs[t]]]
    /\ UNCHANGED <<remove_parent, env, call, child, attempts>>

(***************************************************************************)
(* run_editor and run_editor_child                                         *)
(***************************************************************************)

EnvNames == <<"SYSTEMD_EDITOR", "EDITOR", "VISUAL">>

getenv(name) == env[name]

\* lines 230-234
ResolveEditor ==
    LET e1 == getenv("SYSTEMD_EDITOR")
        e2 == IF e1.null THEN getenv("EDITOR") ELSE e1
    IN IF e2.null THEN getenv("VISUAL") ELSE e2

\* isempty() of a char pointer that may be NULL
isempty_ptr(x) == x.null \/ isempty(x.v)

Digits == <<"1", "2", "3", "4", "5", "6", "7", "8", "9">>

\* an argument list with the temp path of the first file only
TempArgs_FirstOnly(fls) == << <<fls[1].temp>> >>

\* the temp paths of all files, in registry order (lines 253-257)
RECURSIVE TempArgs(_)
TempArgs(fls) ==
    IF fls = <<>> THEN <<>> ELSE << <<Head(fls).temp>> >> \o TempArgs(Tail(fls))

\* an argument vector with the +LINE argument whenever the first file has a
\* line to go to, however many files there are
BuildArgs_AlwaysLine(editor, fls) ==
    (IF ~isempty_ptr(editor) THEN strv_split(editor.v) ELSE <<>>)
    \o (IF fls[1].line > 1
        THEN << <<"+", Digits[fls[1].line]>> >> ELSE <<>>)
    \o TempArgs(fls)

\* the argument vector of lines 236-257; every argument is a text
BuildArgs(editor, fls) ==
    (IF ~isempty_ptr(editor) THEN strv_split(editor.v) ELSE <<>>)
    \o (IF Len(fls) = 1 /\ fls[1].line > 1
        THEN << <<"+", Digits[fls[1].line]>> >> ELSE <<>>)
    \o TempArgs(fls)

\* errno of an execvp that returned; 0 stands for the one that did not
ExecResults == {0, ENOENT, EACCES}

\* lines 284-291 and 362-364: safe_fork fails, or the child starts
RunEditorFork ==
    /\ pc = "fork"
    /\ \E forked \in BOOLEAN :
         IF forked
         THEN /\ pc' = "child"
              /\ child' = [NoChild EXCEPT !.pc = "start"]
              /\ ret' = ret
              /\ hist' = [hist EXCEPT !.forked = TRUE]
         ELSE /\ pc' = "returned"
              /\ ret' = -EIO
              /\ child' = child
              /\ hist' = hist
    /\ UNCHANGED <<files, remove_parent, fs, dirs, env, idx, call, attempts>>

\* lines 230-257
ChildArgs ==
    /\ pc = "child"
    /\ child.pc = "start"
    /\ LET editor == ResolveEditor
       IN child' = [child EXCEPT
                      !.editor = editor,
                      !.args = BuildArgs(editor, files),
                      !.k = 1,
                      !.pc = IF ~isempty_ptr(editor) THEN "exec" ELSE "fallback"]
    /\ UNCHANGED <<files, remove_parent, fs, dirs, env, pc, idx, ret, call,
                   attempts, hist>>

\* lines 259-260: execvp of the override; when it returns, whatever its errno,
\* control falls into the loop below
ChildExecOverride ==
    /\ pc = "child"
    /\ child.pc = "exec"
    /\ \E e \in ExecResults :
         /\ attempts' = Append(attempts, [argv |-> child.args, errno |-> e])
         /\ child' = [child EXCEPT !.pc = IF e = 0 THEN "running" ELSE "fallback"]
    /\ UNCHANGED <<files, remove_parent, fs, dirs, env, pc, idx, ret, call, hist>>

\* lines 264-268: the name goes in front of args once, then replaces args[0]
FallbackArgs(args, prepended, name) ==
    IF ~prepended THEN << <<name>> >> \o args
    ELSE [args EXCEPT ![1] = <<name>>]

\* every errno taken for "not found"
AfterFallback_AnyErrno(e) ==
    IF e = 0 THEN "running" ELSE "fallback"

\* where the child is after the execvp of fallback k returned errno e
AfterFallback(e) ==
    IF e = 0 THEN "running"
    ELSE IF e # ENOENT THEN "exited"
    ELSE "fallback"

\* one iteration of lines 263-278
ChildExecFallback ==
    /\ pc = "child"
    /\ child.pc = "fallback"
    /\ child.k <= Len(FallbackEditors)
    /\ \E e \in ExecResults :
         LET args == FallbackArgs(child.args, child.prepended, FallbackEditors[child.k])
         IN /\ attempts' = Append(attempts, [argv |-> args, errno |-> e])
            /\ child' = [child EXCEPT
                           !.args = args,
                           !.prepended = TRUE,
                           !.k = IF e = ENOENT THEN @ + 1 ELSE @,
                           !.pc = AfterFallback(e),
                           !.status = IF AfterFallback(e) = "exited" THEN 1 ELSE @]
    /\ UNCHANGED <<files, remove_parent, fs, dirs, env, pc, idx, ret, call, hist>>

\* lines 280-281 and 294: the list is exhausted, the child exits with failure
ChildNoEditor ==
    /\ pc = "child"
    /\ child.pc = "fallback"
    /\ child.k > Len(FallbackEditors)
    /\ child' = [child EXCEPT !.pc = "exited", !.status = 1]
    /\ UNCHANGED <<files, remove_parent, fs, dirs, env, pc, idx, ret, call,
                   attempts, hist>>

(***************************************************************************)
(* The editor, and the parent's wait                                       *)
(***************************************************************************)

\* The text of a file with the part trim_edit_markers would keep replaced
SetRegion(old, new) ==
    SubSeq(old, 1, ContentsStart(old, marker_start) - 1)
    \o new
    \o SubSeq(old, ContentsLast(old, marker_start, marker_end) + 1, Len(old))

\* What the user does to one file: nothing, blank the content, write content
\* with whitespace around it, or replace the file (markers and all)
EditKinds == {"keep", "blank", "text", "whole"}

ApplyEdit(kind, file) ==
    CASE kind = "keep" -> file
      [] kind = "blank" -> File(SetRegion(file.data, <<NL, " ", NL>>))
      [] kind = "text" -> File(SetRegion(file.data, <<NL, "b", " ", NL>>))
      [] kind = "whole" -> File(<<"b", NL>>)

\* An execvp that does not return replaces the process image: what
\* run_editor_child held is gone, and the editor runs.
EditorStart ==
    /\ pc = "child"
    /\ child.pc = "running"
    /\ child' = [NoChild EXCEPT !.pc = "editing"]
    /\ attempts' = <<>>
    /\ UNCHANGED <<files, remove_parent, fs, dirs, env, pc, idx, ret, call, hist>>

\* the editor saves each file it was given as the user left it, then exits or
\* is killed (status 1)
EditorRun ==
    /\ pc = "child"
    /\ child.pc = "editing"
    /\ \E kinds \in [1..n_files -> EditKinds], status \in {0, 1} :
         /\ fs' = [name \in FileNames |->
                     IF \E i \in 1..n_files : files[i].temp = name
                     THEN ApplyEdit(kinds[CHOOSE i \in 1..n_files : files[i].temp = name],
                                    fs[name])
                     ELSE fs[name]]
         /\ child' = [child EXCEPT !.pc = "exited", !.status = status]
    /\ UNCHANGED <<files, remove_parent, dirs, env, pc, idx, ret, call,
                   attempts, hist>>

\* a wait that takes a child's failure status for a failure of the call
safe_fork_wait_checked(status) == IF status = 0 THEN 1 ELSE -EIO

\* What safe_fork with FORK_WAIT returns in the parent for a child that has
\* exited with the given status: the parent blocks until the child exits and
\* does not depend on how it exited.
safe_fork_wait(status) == 1

\* lines 289-297 and 362-364 in the parent: safe_fork returns once the child
\* has exited, run_editor returns, and the run goes on or returns the error.
\* The child and what it held are gone.
RunEditorWait ==
    /\ pc = "child"
    /\ child.pc = "exited"
    /\ LET r == safe_fork_wait(child.status)
       IN IF r < 0
          THEN /\ pc' = "returned"
               /\ ret' = r
               /\ idx' = idx
               /\ hist' = [hist EXCEPT !.status = child.status]
          ELSE /\ pc' = "install"
               /\ ret' = ret
               /\ idx' = 1
               /\ hist' = [hist EXCEPT
                             !.launched = TRUE,
                             !.status = child.status,
                             !.edited = [p \in RunPaths |->
                                           IF \E i \in 1..n_files : files[i].path = p
                                           THEN fs[TempOf[p]] ELSE Absent]]
    /\ child' = NoChild
    /\ attempts' = <<>>
    /\ UNCHANGED <<files, remove_parent, fs, dirs, env, call>>

(***************************************************************************)
(* do_edit_files_and_install: the install loop                             *)
(***************************************************************************)

InstallFailures == {"none", "read", "write", "rename"}

\* trim_edit_markers on a file of the disk (lines 300-339): r is its return
\* value, fs the disk afterwards
trim_edit_markers(path, ms, me, fsx, fail) ==
    LET t == TrimResult(fsx[path].data, ms, me)
    IN IF ~fsx[path].ex THEN [r |-> -ENOENT, fs |-> fsx, wrote |-> FALSE]
       ELSE IF fail = "read" THEN [r |-> -EIO, fs |-> fsx, wrote |-> FALSE]
       ELSE IF ~t.write THEN [r |-> t.r, fs |-> fsx, wrote |-> FALSE]
       ELSE IF fail = "write"
            THEN [r |-> -EIO, fs |-> [fsx EXCEPT ![path] = File(<<>>)], wrote |-> FALSE]
       ELSE [r |-> t.r, fs |-> [fsx EXCEPT ![path] = File(t.new)], wrote |-> TRUE]

\* rename(2) of a file onto a path
Rename(fsx, from, to) == [fsx EXCEPT ![to] = fsx[from], ![from] = Absent]

\* an iteration without the continue of line 372
InstallStep_NoSkip(r, fail) ==
    IF r < 0 THEN "error"
    ELSE IF fail = "rename" THEN "error"
    ELSE "install"

\* what one iteration does: "error" returns r, "skip" is the continue of
\* line 372, "install" the rename of lines 374-379
InstallStep(r, fail) ==
    IF r < 0 THEN "error"
    ELSE IF r = 0 THEN "skip"
    ELSE IF fail = "rename" THEN "error"
    ELSE "install"

\* one iteration of lines 366-380, and the return of line 382 after the last
InstallFile ==
    /\ pc = "install"
    /\ \E fail \in InstallFailures :
         LET f == files[idx]
             t == trim_edit_markers(f.temp, marker_start, marker_end, fs, fail)
             step == InstallStep(t.r, fail)
         IN /\ fs' = IF step = "install" THEN Rename(t.fs, f.temp, f.path) ELSE t.fs
            /\ files' = IF step = "install"
                        THEN SetFile(files, idx, NullPath, f.line) ELSE files
            /\ ret' = IF step = "error" THEN (IF t.r < 0 THEN t.r ELSE -EIO)
                      ELSE IF idx = n_files THEN 0 ELSE ret
            /\ pc' = IF step = "error" \/ idx = n_files THEN "returned" ELSE "install"
            /\ idx' = IF step = "error" THEN idx ELSE idx + 1
            /\ hist' = [hist EXCEPT
                          !.renamed = IF step = "install" THEN @ \cup {f.path} ELSE @,
                          !.trimmed = @ \cup {f.path},
                          !.written = IF t.wrote THEN @ \cup {f.path} ELSE @,
                          !.failed = IF t.r > 0 /\ step = "error" THEN @ \cup {f.path}
                                     ELSE @]
    /\ UNCHANGED <<remove_parent, dirs, env, call, child, attempts>>

(***************************************************************************)
(* edit_file_context_done                                                  *)
(***************************************************************************)

\* rmdir(2): removes the directory when it exists and holds nothing
DirEmpty(fsx, dirsx, d) ==
    /\ \A name \in DOMAIN ParentOf : ParentOf[name] = d => ~fsx[name].ex
    /\ \A sub \in DOMAIN DirParent : DirParent[sub] = d => sub \notin dirsx

\* an rmdir that removes the directory whatever it holds
Rmdir_Force(fsx, dirsx, d) == dirsx \ {d}

Rmdir(fsx, dirsx, d) ==
    IF d \in dirsx /\ DirEmpty(fsx, dirsx, d) THEN dirsx \ {d} ELSE dirsx

\* path_extract_directory
path_extract_directory(path) == ParentOf[path]

\* a cleanup that takes back what was installed: a file without a temp path
\* has its target unlinked
RECURSIVE DoneLoop_Rollback(_, _, _, _)
DoneLoop_Rollback(fls, rp, fsx, dirsx) ==
    IF fls = <<>> THEN [fs |-> fsx, dirs |-> dirsx]
    ELSE LET i == Head(fls)
             fs1 == IF i.temp # NullPath THEN [fsx EXCEPT ![i.temp] = Absent]
                    ELSE [fsx EXCEPT ![i.path] = Absent]
             dirs1 == IF rp THEN Rmdir(fs1, dirsx, path_extract_directory(i.path))
                      ELSE dirsx
         IN DoneLoop_Rollback(Tail(fls), rp, fs1, dirs1)

\* the loop of lines 26-46 over the files from the first on
RECURSIVE DoneLoop(_, _, _, _)
DoneLoop(fls, rp, fsx, dirsx) ==
    IF fls = <<>> THEN [fs |-> fsx, dirs |-> dirsx]
    ELSE LET i == Head(fls)
             fs1 == IF i.temp # NullPath THEN [fsx EXCEPT ![i.temp] = Absent] ELSE fsx
             dirs1 == IF rp THEN Rmdir(fs1, dirsx, path_extract_directory(i.path))
                      ELSE dirsx
         IN DoneLoop(Tail(fls), rp, fs1, dirs1)

\* a cleanup that keeps the registry
edit_file_context_done_keep ==
    /\ pc \in {"setup", "returned", "done"}
    /\ LET res == DoneLoop(files, remove_parent, fs, dirs)
       IN /\ fs' = res.fs
          /\ dirs' = res.dirs
    /\ files' = [i \in 1..n_files |-> [files[i] EXCEPT !.temp = NullPath]]
    /\ pc' = "done"
    /\ call' = [op |-> "edit_file_context_done", path |-> NullPath]
    /\ hist' = [hist EXCEPT !.again = (pc = "done")]
    /\ UNCHANGED <<remove_parent, env, idx, ret, child, attempts>>

\* lines 21-50; the caller may call it again on the context it has cleaned
edit_file_context_done ==
    /\ pc \in {"setup", "returned", "done"}
    /\ LET res == DoneLoop(files, remove_parent, fs, dirs)
       IN /\ fs' = res.fs
          /\ dirs' = res.dirs
    /\ files' = <<>>
    /\ pc' = "done"
    /\ call' = [op |-> "edit_file_context_done", path |-> NullPath]
    /\ hist' = [hist EXCEPT !.again = (pc = "done")]
    /\ UNCHANGED <<remove_parent, env, idx, ret, child, attempts>>

(***************************************************************************)
(* The session: a caller adds targets, runs the workflow once, cleans up   *)
(***************************************************************************)

\* What has happened so far (read by the properties only):
\*   before    the targets as they were before the session
\*   stagedOk  the targets create_edit_temp_file succeeded for
\*   stageAt   the call create_edit_temp_file failed at ("none": it did not)
\*   staged    the staging file of each as it was written
\*   made      the staging files that were created on disk
\*   madeDirs  the directories that were created
\*   forked    the editor child was started
\*   launched  run_editor returned 0
\*   status    the exit status of the child the parent waited for (-1: none)
\*   edited    the staging file of each when the parent's wait returned
\*   trimmed   the targets trim_edit_markers was called for
\*   written   the targets whose staging file it rewrote
\*   failed    the targets whose rename failed
\*   renamed   the targets a staging file was renamed onto
\*   again     edit_file_context_done was called on a context already cleaned
InitHist(fsx) ==
    [before |-> [p \in RunPaths |-> fsx[p]],
     stagedOk |-> {}, stageAt |-> "none", made |-> {}, madeDirs |-> {},
     forked |-> FALSE, launched |-> FALSE, status |-> -1,
     trimmed |-> {}, written |-> {}, failed |-> {}, renamed |-> {},
     again |-> FALSE,
     staged |-> [p \in RunPaths |-> Absent],
     edited |-> [p \in RunPaths |-> Absent]]

\* a target before the run: its directory missing, its directory empty, or
\* the file there with some text
NoDir == [dir |-> FALSE, file |-> Absent]
NoFile == [dir |-> TRUE, file |-> Absent]
WithText(t) == [dir |-> TRUE, file |-> File(t)]

TargetInits ==
    { st \in [RunPaths -> {NoDir, NoFile, WithText(<<"a", NL>>), WithText(<<" ", "a">>)}] :
        /\ st["t1"] # WithText(<<" ", "a">>)
        /\ st["t2"] \in {NoDir, WithText(<<" ", "a">>)} }

\* the seed of plain copies and the quoted file: both there, or both missing
OtherInits ==
    { <<File(<<"o", NL>>), File(<<"c", NL, "d", NL>>)>>,
      <<Absent, Absent>> }

Unset == [n \in {"SYSTEMD_EDITOR", "EDITOR", "VISUAL"} |-> Null]

\* the environment of a run: an editor with an option
RunEnvs == { [Unset EXCEPT !["EDITOR"] = Some(<<"x", " ", "-", "y">>)] }

InitDisk(st, orig, source) ==
    /\ fs = [name \in FileNames |->
               IF name \in RunPaths THEN st[name].file
               ELSE IF name = OrigPath THEN orig
               ELSE IF name = SourcePath THEN source
               ELSE Absent]
    /\ dirs = { ParentOf[p] : p \in { q \in RunPaths : st[q].dir } }
              \cup (IF \E q \in RunPaths : st[q].dir THEN {"d0"} ELSE {})

Init ==
    /\ files = <<>>
    /\ remove_parent \in BOOLEAN
    /\ \E st \in TargetInits, other \in OtherInits :
         InitDisk(st, other[1], other[2])
    /\ env \in RunEnvs
    /\ pc = "setup"
    /\ idx = 1
    /\ ret = 0
    /\ call = NoCall
    /\ child = NoChild
    /\ attempts = <<>>
    /\ hist = InitHist(fs)

\* the arguments a caller passes to edit_files_add for a path
AddOriginals == {NullPath, OrigPath}
AddComments(path) == {Null, Some(<<path, SourcePath>>)}

AddFile ==
    \E path \in RunPaths, original_path \in AddOriginals :
      \E comment_paths \in AddComments(path) :
        edit_files_add(path, original_path, comment_paths)

Next ==
    \/ AddFile
    \/ DoEditBegin
    \/ StageFile
    \/ RunEditorFork
    \/ ChildArgs
    \/ ChildExecOverride
    \/ ChildExecFallback
    \/ ChildNoEditor
    \/ EditorStart
    \/ EditorRun
    \/ RunEditorWait
    \/ InstallFile
    \/ edit_file_context_done

Spec == Init /\ [][Next]_vars

(***************************************************************************)
(* The registry alone: any sequence of edit_files_add calls                *)
(***************************************************************************)

BaseDisk ==
    [name \in FileNames |->
       IF name = OrigPath THEN File(<<"o", NL>>)
       ELSE IF name = SourcePath THEN File(<<"c", NL, "d", NL>>)
       ELSE Absent]

InitAdd ==
    /\ files = <<>>
    /\ remove_parent = FALSE
    /\ fs = BaseDisk
    /\ dirs = {}
    /\ env = Unset
    /\ pc = "setup"
    /\ idx = 1
    /\ ret = 0
    /\ call = NoCall
    /\ child = NoChild
    /\ attempts = <<>>
    /\ hist = InitHist(fs)

AddAny ==
    \E path \in AddPaths, original_path \in AddOriginals :
      \E comment_paths \in AddComments(path) :
        edit_files_add(path, original_path, comment_paths)

NextAdd == AddAny

SpecAdd == InitAdd /\ [][NextAdd]_vars

(***************************************************************************)
(* The child alone: run_editor_child over every environment                *)
(***************************************************************************)

\* what a variable may hold: unset, empty, blank, a command, a command with
\* an option; each variable has a command of its own
EnvValues(cmd) ==
    { Null, Some(<<>>), Some(<<" ">>), Some(<<cmd>>), Some(<<cmd, " ", "-", "y">>) }

EditorEnvs ==
    { [n \in {"SYSTEMD_EDITOR", "EDITOR", "VISUAL"} |->
         IF n = "SYSTEMD_EDITOR" THEN s ELSE IF n = "EDITOR" THEN e ELSE v] :
      s \in EnvValues("s"), e \in EnvValues("e"), v \in EnvValues("v") }

\* the sessions the child is forked in: one plain copy, one templated file,
\* one file copied and then templated, two files
EditorSessions ==
    { << EditFile("t1", OrigPath, Null) >>,
      << EditFile("t1", NullPath, Some(<<SourcePath>>)) >>,
      << EditFile("t1", OrigPath, Some(<<"t1", SourcePath>>)) >>,
      << EditFile("t1", NullPath, Some(<<SourcePath>>)), EditFile("t2", OrigPath, Null) >> }

\* the staging loop run to its end without a failure
RECURSIVE StageAll(_, _, _, _)
StageAll(fls, i, fsx, dirsx) ==
    IF i > Len(fls) THEN [files |-> fls, fs |-> fsx, dirs |-> dirsx]
    ELSE LET res == create_edit_temp_file(fls[i], marker_start, marker_end,
                                          fsx, dirsx, "none")
         IN StageAll(SetFile(fls, i, res.temp, res.line), i + 1, res.fs, res.dirs)

InitEditor ==
    /\ \E session \in EditorSessions :
         LET st == StageAll(session, 1, BaseDisk, {})
         IN /\ files = st.files
            /\ fs = st.fs
            /\ dirs = st.dirs
            /\ hist = [InitHist(BaseDisk) EXCEPT
                         !.stagedOk = { session[i].path : i \in 1..Len(session) },
                         !.forked = TRUE,
                         !.made = { st.files[i].temp : i \in 1..Len(session) },
                         !.madeDirs = st.dirs,
                         !.staged = [p \in RunPaths |-> st.fs[TempOf[p]]]]
            /\ idx = Len(session) + 1
    /\ remove_parent = FALSE
    /\ env \in EditorEnvs
    /\ pc = "child"
    /\ ret = 0
    /\ call = [op |-> "do_edit_files_and_install", path |-> NullPath]
    /\ child = [NoChild EXCEPT !.pc = "start"]
    /\ attempts = <<>>

NextEditor ==
    \/ ChildArgs
    \/ ChildExecOverride
    \/ ChildExecFallback
    \/ ChildNoEditor

SpecEditor == InitEditor /\ [][NextEditor]_vars

(***************************************************************************)
(* Template and trim alone: every short text as the target's content       *)
(***************************************************************************)

Alphabet == {"a", " ", NL, "#", "S", "E"}

\* the comment sources of the templated target: none, the quoted file, the
\* target itself and the quoted file, the quoted file twice
TrimComments == { <<>>, <<SourcePath>>, <<"t1", SourcePath>>, <<SourcePath, SourcePath>> }

\* trim_edit_markers called on the staged file as it was written
TrimStaged ==
    /\ pc = "fork"
    /\ \E fail \in InstallFailures :
         LET t == trim_edit_markers(files[1].temp, marker_start, marker_end, fs, fail)
         IN /\ fs' = t.fs
            /\ ret' = t.r
            /\ hist' = [hist EXCEPT !.trimmed = @ \cup {files[1].path},
                                    !.written = IF t.wrote THEN @ \cup {files[1].path}
                                                ELSE @]
    /\ pc' = "returned"
    /\ call' = [op |-> "trim_edit_markers", path |-> files[1].temp]
    /\ UNCHANGED <<files, remove_parent, dirs, env, idx, child, attempts>>

InitTrim ==
    /\ \E comments \in TrimComments :
         files = << EditFile("t1", NullPath, Some(comments)) >>
    /\ \E content \in {Absent} \cup { File(t) : t \in Texts(Alphabet, MaxLen) } :
         fs = [BaseDisk EXCEPT !["t1"] = content,
                               ![SourcePath] = File(<<"#", "S", NL, " ", "c", NL, "#", "E">>)]
    /\ dirs = {"d0", "d1"}
    /\ remove_parent = FALSE
    /\ env = Unset
    /\ pc = "stage"
    /\ idx = 1
    /\ ret = 0
    /\ call = [op |-> "do_edit_files_and_install", path |-> NullPath]
    /\ child = NoChild
    /\ attempts = <<>>
    /\ hist = InitHist(fs)

NextTrim ==
    \/ StageFile
    \/ TrimStaged

SpecTrim == InitTrim /\ [][NextTrim]_vars

(***************************************************************************)
(* Properties                                                              *)
(***************************************************************************)

HasPath(fls, path) == \E i \in 1..Len(fls) : fls[i].path = path

NoMarker(text) == strstr(text, marker_start) = 0 /\ strstr(text, marker_end) = 0

\* the part of a staging file trim_edit_markers keeps, stripped
Kept(text) == strstrip(TrimRegion(text, marker_start, marker_end))

\* C10 (Idempotent add): no two entries of the registry have the same path;
\* an edit_files_add of a path already there returns 0 and leaves the entries
\* as they are; one of a new path returns 1 and appends exactly one entry,
\* for that path, at the end.
C10_IdempotentAdd ==
    /\ [](\A i, j \in 1..n_files : files[i].path = files[j].path => i = j)
    /\ [][call'.op = "edit_files_add" =>
            IF HasPath(files, call'.path)
            THEN ret' = 0 /\ files' = files
            ELSE /\ ret' = 1
                 /\ Len(files') = Len(files) + 1
                 /\ SubSeq(files', 1, Len(files)) = files
                 /\ files'[Len(files')].path = call'.path
                 /\ files'[Len(files')].temp = NullPath]_vars

\* C10 witness: a second add of a path, in a registry of three, returned 0
C10_Witness ==
    /\ call.op = "edit_files_add"
    /\ ret = 0
    /\ n_files = 3
    /\ files[2].path = call.path

\* the target's content in the template-and-trim specification
TrimTarget == fs["t1"]

\* the staged file was trimmed and trim_edit_markers did not fail
TrimmedStaged ==
    /\ pc = "returned"
    /\ call.op = "trim_edit_markers"
    /\ ret >= 0
    /\ TrimTarget.ex
    /\ NoMarker(TrimTarget.data)

\* C9 (Round-trip trim) as stated: templating a content C that holds neither
\* marker and trimming the unedited template leaves exactly C plus one
\* newline in the file.
C9_RoundTripExact ==
    TrimmedStaged => fs[files[1].temp] = File(TrimTarget.data \o <<NL>>)

\* C9 as amended: trimming the unedited template of a content C that holds
\* neither marker leaves C stripped of leading and trailing whitespace plus
\* one newline; when nothing is left of C, trim returns 0 and the staged file
\* stays as it was written.
C9_RoundTripStripped ==
    TrimmedStaged =>
      IF strstrip(TrimTarget.data) = <<>>
      THEN ret = 0 /\ fs[files[1].temp] = hist.staged["t1"]
      ELSE ret = 1 /\ fs[files[1].temp] = File(strstrip(TrimTarget.data) \o <<NL>>)

\* C9 witness: a content with whitespace on both sides, two comment sources
C9_Witness ==
    /\ TrimmedStaged
    /\ TrimTarget.data = <<" ", "a", NL>>
    /\ Len(files[1].comment_paths.v) = 2
    /\ fs[files[1].temp] = File(<<"a", NL>>)

\* the value of the first of the three variables that is not empty, if any
FirstNonEmpty ==
    IF ~isempty_ptr(env["SYSTEMD_EDITOR"]) THEN env["SYSTEMD_EDITOR"]
    ELSE IF ~isempty_ptr(env["EDITOR"]) THEN env["EDITOR"]
    ELSE IF ~isempty_ptr(env["VISUAL"]) THEN env["VISUAL"]
    ELSE Null

\* the arguments after the command: the +line argument and the temp paths
FileArgs == BuildArgs(Null, files)

\* C4 (Explicit override is final) as stated: when the override yields a
\* command and its execvp fails with "not found", no further execvp is made:
\* none of the well-known editors is attempted.
C4_OverrideIsFinal ==
    ( /\ Len(attempts) >= 1
      /\ ~isempty_ptr(child.editor)
      /\ strv_split(child.editor.v) # <<>>
      /\ attempts[1].errno = ENOENT )
    => Len(attempts) = 1

\* C5 (Editor resolution precedence) as stated: the first command executed is
\* the value of the first variable, in the order SYSTEMD_EDITOR, EDITOR,
\* VISUAL, that is not empty; the well-known editors come first only when
\* none of the three has a non-empty value.
C5_FirstNonEmptyWins ==
    Len(attempts) >= 1 =>
      attempts[1].argv =
        (IF FirstNonEmpty.null THEN << <<FallbackEditors[1]>> >>
         ELSE strv_split(FirstNonEmpty.v)) \o FileArgs

\* C6 (Fallback loop): with no override in effect the execvp calls are for
\* editor, nano, vim, vi in this order, with argument vectors that differ in
\* the program name only; a call is followed by another only when it failed
\* with "not found"; after any other failure the child has exited with
\* failure; after four "not found" the child does not run an editor and, once
\* it has exited, has exited with failure.
C6_FallbackLoop ==
    (child.pc # "start" /\ isempty_ptr(child.editor)) =>
      /\ Len(attempts) <= Len(FallbackEditors)
      /\ \A i \in 1..Len(attempts) :
           /\ Head(attempts[i].argv) = <<FallbackEditors[i]>>
           /\ Tail(attempts[i].argv) = FileArgs
           /\ i < Len(attempts) => attempts[i].errno = ENOENT
      /\ child.pc = "running" <=>
           (Len(attempts) >= 1 /\ attempts[Len(attempts)].errno = 0)
      /\ (Len(attempts) >= 1 /\ attempts[Len(attempts)].errno \notin {0, ENOENT})
           => (child.pc = "exited" /\ child.status = 1)
      /\ (Len(attempts) = Len(FallbackEditors)
          /\ attempts[Len(attempts)].errno = ENOENT)
           => (child.pc \in {"fallback", "exited"} /\ child.k > Len(FallbackEditors))
      /\ child.pc = "exited" => child.status = 1

\* C6 witness: all four were not found and the child exited with failure
C6_Witness ==
    /\ isempty_ptr(child.editor)
    /\ Len(attempts) = 4
    /\ \A i \in 1..4 : attempts[i].errno = ENOENT
    /\ attempts[4].argv[1] = <<"vi">>
    /\ child.pc = "exited"
    /\ child.status = 1

\* the targets whose staging file the editor left exactly as it was staged
Unmodified(p) ==
    /\ hist.launched
    /\ hist.staged[p].ex
    /\ hist.edited[p] = hist.staged[p]

\* the targets whose staging file held nothing but whitespace between the
\* markers (or in the whole file, without markers) when the editor was done
Emptied(p) ==
    /\ hist.launched
    /\ hist.edited[p].ex
    /\ Kept(hist.edited[p].data) = <<>>

TargetUnchanged(p) == fs[p] = hist.before[p]

\* C1 (Empty-edit skip): a target whose staging file holds only whitespace
\* between the markers (in the whole file, when the markers are gone) once
\* the editor is done is never renamed onto: during the run and after the
\* cleanup it exists, or does not, with the content it had before.
C1_EmptyEditSkip ==
    \A p \in RunPaths :
      Emptied(p) => (p \notin hist.renamed /\ TargetUnchanged(p))

\* C1 witness: cleanup is done; a target that existed was blanked in the
\* editor and trimmed, and the other target was installed
C1_Witness ==
    /\ pc = "done"
    /\ Emptied("t1")
    /\ "t1" \in hist.trimmed
    /\ hist.before["t1"].ex
    /\ hist.edited["t1"] # hist.staged["t1"]
    /\ "t2" \in hist.renamed

C3_NoTempLeftAfterCleanup ==
    pc = "done" => \A t \in hist.made : ~fs[t].ex

\* C7 (Rename failure is per-file) as stated: when a rename has failed, the
\* run goes on: once it has returned, every target was trimmed and the
\* result is not an error.
C7_RenameFailureIsPerFile ==
    (pc = "returned" /\ hist.failed # {}) =>
      /\ ret >= 0
      /\ \A i \in 1..n_files : files[i].path \in hist.trimmed

CreatedFor(p) == IF p \in hist.renamed THEN {} ELSE hist.madeDirs \cap Ancestors(p)

WaitedUnmodified ==
    /\ hist.status # -1
    /\ \A i \in 1..n_files : hist.edited[files[i].path] = hist.staged[files[i].path]

NoSources(f) == f.comment_paths.null \/ f.comment_paths.v = <<>>

\* C13 (First-time creation with markers but no sources) as stated: for a
\* target that does not exist and was added with no original path and no
\* comment sources, a successful staging has written a file holding the
\* header, the start marker, a blank content region and the end marker; and
\* when the editor left it unchanged the target is not created and the run
\* does not fail for a missing staging file.
C13_FirstTimeCreation ==
    \A i \in 1..n_files :
      LET f == files[i]
          p == f.path
      IN (/\ f.original_path = NullPath
          /\ NoSources(f)
          /\ ~hist.before[p].ex
          /\ p \in hist.stagedOk)
         => /\ hist.staged[p] = File(TemplateText(p, marker_start, Null, marker_end))
            /\ (hist.launched /\ hist.edited[p] = hist.staged[p])
                 => /\ p \notin hist.renamed
                    /\ ~fs[p].ex
                    /\ ~(pc = "returned" /\ idx = i /\ ret = -ENOENT)

\* the cursor line a file is to have from the way it was added: 4 with
\* comment paths (a template), 1 without (a plain copy)
ExpectedLine(f) == IF f.comment_paths.null THEN 1 ELSE 4

\* the +LINE argument expected for the session, if any
ExpectedPlus ==
    IF n_files = 1 /\ ExpectedLine(files[1]) > 1
    THEN << <<"+", Digits[ExpectedLine(files[1])]>> >> ELSE <<>>

\* the temp paths expected, in registry order
ExpectedTemps == [i \in 1..n_files |-> <<TempOf[files[i].path]>>]

\* the words of the override in effect, if any
OverrideWords ==
    IF isempty_ptr(child.editor) THEN <<>> ELSE strv_split(child.editor.v)

\* C14 (Editor argument vector): the argument vector the child builds is the
\* whitespace-split words of the override, if any, then the +LINE argument,
\* then the temp paths of all targets in registry order; +LINE is there if
\* and only if the session has one target and that target was staged as a
\* template (cursor line 4, against 1 for a plain copy); the execvp of the
\* override gets this vector, the execvp of a well-known editor gets it with
\* the editor's name in front.
C14_ArgumentVector ==
    child.pc \notin {"none", "start"} =>
      LET expected == OverrideWords \o ExpectedPlus \o ExpectedTemps
      IN /\ \A i \in 1..n_files :
              files[i].line = ExpectedLine(files[i])
         /\ child.args = (IF child.prepended
                          THEN <<Head(child.args)>> ELSE <<>>) \o expected
         /\ \A k \in 1..Len(attempts) :
              \/ attempts[k].argv = expected
              \/ /\ \E j \in 1..Len(FallbackEditors) :
                      Head(attempts[k].argv) = <<FallbackEditors[j]>>
                 /\ Tail(attempts[k].argv) = expected

\* C14 witness: one templated target and an override of two words; the
\* override was executed with the two words, +4 and the temp path
C14_Witness ==
    /\ Len(attempts) >= 1
    /\ attempts[1].argv = << <<"s">>, <<"-", "y">>, <<"+", "4">>, <<"t1.tmp">> >>
    /\ n_files = 1
    /\ files[1].line = 4

\* a comment source of the file, other than its own path, that is not there
MissingSource(f) ==
    /\ ~f.comment_paths.null
    /\ \E k \in 1..Len(f.comment_paths.v) :
         /\ f.comment_paths.v[k] # f.path
         /\ ~fs[f.comment_paths.v[k]].ex

\* C15 (Missing-input handling during staging): a plain copy whose original
\* does not exist is staged as an empty file, and a template whose target
\* does not exist is staged as the template of an empty content; a staging
\* that failed at the copy or at the read of the target did so on a file that
\* exists; a file with a comment source, other than itself, that does not
\* exist is never staged; and whenever create_edit_temp_file failed, the run
\* has returned an error and the editor child was never started.
C15_MissingInputs ==
    /\ \A i \in 1..n_files :
         LET f == files[i]
             p == f.path
         IN /\ (p \in hist.stagedOk /\ f.comment_paths.null
                /\ f.original_path # NullPath /\ ~fs[f.original_path].ex)
                 => hist.staged[p] = File(<<>>)
            /\ (p \in hist.stagedOk /\ ~f.comment_paths.null /\ ~hist.before[p].ex)
                 => /\ hist.staged[p].ex
                    /\ Kept(hist.staged[p].data) = <<>>
                    /\ LET t == TemplateText(p, marker_start, Null, marker_end)
                       IN SubSeq(hist.staged[p].data, 1, Len(t)) = t
            /\ MissingSource(f) => p \notin hist.stagedOk
            /\ (MissingSource(f) /\ pc = "returned")
                 => (ret < 0 /\ ~hist.forked)
    /\ (hist.stageAt = "copy" /\ pc = "returned")
         => fs[files[idx].original_path].ex
    /\ (hist.stageAt = "readtarget" /\ pc = "returned")
         => fs[files[idx].path].ex
    /\ hist.stageAt # "none"
         => (pc \in {"returned", "done"} /\ ret < 0 /\ ~hist.forked)

\* C15 witness: of two targets the first, a plain copy of an original that
\* does not exist, was staged as an empty file; the second has a comment
\* source that does not exist, and the run returned -ENOENT for it
C15_Witness ==
    /\ pc = "returned"
    /\ n_files = 2
    /\ files[1].comment_paths.null
    /\ files[1].original_path = OrigPath
    /\ ~fs[OrigPath].ex
    /\ hist.staged[files[1].path] = File(<<>>)
    /\ MissingSource(files[2])
    /\ hist.stageAt = "readcomment"
    /\ ret = -ENOENT

\* C16 (tempPath invariant) as stated: the temp path of every registered
\* file is NULL or names a file that the staging step of this run created on
\* disk.
C16_TempNamesCreatedFile ==
    \A i \in 1..n_files :
      files[i].temp # NullPath => files[i].temp \in hist.made

\* the region of a text as C17 words it: from behind the first start marker
\* (from the start of the text without one) to the first end marker in what
\* follows (to the end of the text without one)
ClaimRegion(text) ==
    LET s == strstr(text, marker_start)
        rest == IF s > 0 THEN SubSeq(text, s + Len(marker_start), Len(text)) ELSE text
        e == strstr(rest, marker_end)
    IN IF e > 0 THEN SubSeq(rest, 1, e - 1) ELSE rest

\* C17 (Trim result) as stated: for a staging file trim_edit_markers was
\* called on, with c the stripped region: if c is empty the file is not
\* rewritten, stays as it was and the target is not renamed onto; otherwise a
\* target renamed onto holds exactly c plus one newline, and the staging file
\* was rewritten only if its content differed from c plus one newline.
C17_TrimResult ==
    \A i \in 1..n_files :
      LET p == files[i].path
          c == strstrip(ClaimRegion(hist.edited[p].data))
      IN (p \in hist.trimmed /\ hist.edited[p].ex) =>
           IF c = <<>>
           THEN /\ p \notin hist.written
                /\ p \notin hist.renamed
                /\ pc # "done" => fs[TempOf[p]] = hist.edited[p]
           ELSE /\ p \in hist.renamed => fs[p] = File(c \o <<NL>>)
                /\ p \in hist.written => hist.edited[p].data # c \o <<NL>>

\* the paths of the first k registered files
FirstPaths(k) == { files[i].path : i \in 1..k }

\* C18 (Phase ordering): the editor child is forked only once every target
\* has a temp path, and at most once; each execvp in it is given the temp
\* paths of all targets, in registry order, and at most one execvp, the last,
\* starts an editor; no target is trimmed or renamed onto before the parent's
\* wait for the child has returned, and none after that while a child lives;
\* the targets trimmed so far are the first ones of the registry, and a target
\* renamed onto was trimmed before.
C18_PhaseOrdering ==
    /\ [](/\ (hist.forked /\ pc # "done") =>
               \A i \in 1..n_files :
                 files[i].temp # NullPath \/ files[i].path \in hist.renamed
          /\ \A k \in 1..Len(attempts) :
               /\ Len(attempts[k].argv) >= n_files
               /\ \A i \in 1..n_files :
                    attempts[k].argv[Len(attempts[k].argv) - n_files + i]
                      = <<TempOf[files[i].path]>>
               /\ attempts[k].errno = 0 => k = Len(attempts)
          /\ hist.trimmed # {} => (hist.status # -1 /\ child = NoChild)
          /\ hist.renamed \subseteq hist.trimmed
          /\ pc # "done" => \E k \in 0..n_files : hist.trimmed = FirstPaths(k))
    /\ [][/\ (child.pc = "none" /\ child'.pc # "none") => ~hist.forked
          /\ (child.pc = "running" /\ attempts' # attempts) => attempts' = <<>>
          /\ hist.status # -1 => child' = NoChild
          /\ hist'.trimmed # hist.trimmed =>
               (pc = "install" /\ hist'.trimmed = hist.trimmed \cup {files[idx].path})]_vars

\* C18 witness: a run of two targets returned 0 after the child exited with
\* status 0 and both targets were trimmed and renamed onto
C18_Witness ==
    /\ pc = "returned"
    /\ ret = 0
    /\ n_files = 2
    /\ hist.status = 0
    /\ hist.trimmed = FirstPaths(2)
    /\ hist.renamed = FirstPaths(2)

\* the install loop has stopped with an error at files[idx]
InstallStopped == pc = "returned" /\ hist.launched /\ ret < 0

\* C19 (Partial install is kept and survives cleanup): when the install loop
\* has stopped with an error, every earlier target whose staging file kept
\* something has been renamed onto and has no temp path, and the others were
\* not renamed onto; a target renamed onto holds what was installed, also
\* after the cleanup; and a call of edit_file_context_done changes no file
\* other than the temp files still named by a registered file, which it
\* removes.
C19_PartialInstallKept ==
    /\ [](/\ InstallStopped =>
               \A i \in 1..(idx - 1) :
                 LET p == files[i].path
                 IN IF Kept(hist.edited[p].data) # <<>>
                    THEN p \in hist.renamed /\ files[i].temp = NullPath
                    ELSE p \notin hist.renamed /\ files[i].temp = TempOf[p]
          /\ \A p \in hist.renamed :
               fs[p] = File(Kept(hist.edited[p].data) \o <<NL>>))
    /\ [][call'.op = "edit_file_context_done" =>
            \A name \in FileNames :
              IF \E i \in 1..n_files : files[i].temp = name
              THEN ~fs'[name].ex
              ELSE fs'[name] = fs[name]]_vars

\* C19 witness: the first of two targets was installed, the rename of the
\* second failed; after the cleanup the first holds what was installed and
\* the staging file of the second is gone
C19_Witness ==
    /\ pc = "done"
    /\ ret < 0
    /\ hist.renamed = {"t1"}
    /\ hist.failed = {"t2"}
    /\ fs["t1"] = File(Kept(hist.edited["t1"].data) \o <<NL>>)
    /\ "t2.tmp" \in hist.made
    /\ ~fs["t2.tmp"].ex

\* C20 (Cleanup is idempotent and total): a call of edit_file_context_done
\* leaves the context with no file and the result of the run as it was (it
\* returns nothing); a call on a context already cleaned removes no file and
\* no directory and leaves the context as it is; this holds after a run that
\* ended at any phase.
C20_CleanupIdempotent ==
    /\ [](pc = "done" => (n_files = 0 /\ call.op = "edit_file_context_done"))
    /\ [][call'.op = "edit_file_context_done" =>
            /\ files' = <<>>
            /\ pc' = "done"
            /\ ret' = ret
            /\ pc = "done" =>
                 /\ hist'.again
                 /\ fs' = fs
                 /\ dirs' = dirs
                 /\ files' = files
                 /\ remove_parent' = remove_parent]_vars

\* C20 witness: edit_file_context_done was called a second time after a run
\* that failed in the install loop and left a staging file to remove, with
\* remove_parent set
C20_Witness ==
    /\ pc = "done"
    /\ hist.again
    /\ remove_parent
    /\ ret < 0
    /\ hist.failed # {}
    /\ \E t \in hist.made : ~fs[t].ex

====
